---- MODULE Spec2Model ----
(***************************************************************************)
(* Transactional pipeline of the mDBMS integration server:                 *)
(*   - the Lock-Based concurrency-control manager (2PL, Wait-Die, wake     *)
(*     events, per-resource waiter sets),                                  *)
(*   - the IntegratedConcurrencyManager wrapper,                           *)
(*   - the query processor's begin / execute / commit / rollback,          *)
(*   - the write-ahead log buffer of the FailureRecoveryManager,           *)
(*   - the ClientHandler: per-connection workers and the retry dispatcher, *)
(*   - the retry queue (a heap), the framing on one connection and the     *)
(*     executor's lock requests for a plan, each by itself,                *)
(*   - a kill of the server followed by recovery,                          *)
(*   - the Timestamp-Ordering and the Validation-Based managers, both      *)
(*     modelled from the specification and the assertions of the tests.    *)
(*                                                                         *)
(* The lock table, the status machine, the wrapper, the WAL buffer and the *)
(* ClientHandler are translated from the sources.  The Wait-Die decision,  *)
(* the waiter sets and the wake events live in the ConcurrencyControl      *)
(* package, which the sources only import and test; they are modelled from *)
(* the specification and from the assertions of the tests.                 *)
(***************************************************************************)
EXTENDS Integers, Sequences, FiniteSets, TLC

(* ------------------------------ bounds -------------------------------- *)
\* number of transactions the manager begins in a run
MaxTx == 3
\* number of execute requests the server handles in a run
MaxExec == 3
\* the follow-up counter of a queued execute saturates here
MaxFollow == 2
\* number of calls made on the manager when it is driven directly
MaxCalls == 8
\* number of connections
MaxClients == 3
\* number of requests the connections send in a run
MaxRequests == 7
\* number of calls made on the wrapper when it is driven directly
MaxWrapperCalls == 5
\* number of calls made on the query processor when it is driven directly
MaxProcessorCalls == 5
\* calls on the recovery manager in one run
MaxLogCalls == 4
\* calls on the Timestamp-Ordering manager in one run
MaxTsCalls == 6
\* calls on the Validation-Based manager in one run
MaxOccCalls == 6
\* tables one plan tree scans
MaxPlanTables == 2
\* calls made on the executor
MaxExecutorCalls == 5
\* puts and gets on the retry queue
MaxQueueCalls == 7
\* frames sent on one connection
MaxFrames == 4

Resources == {"A", "B"}
\* the statements the connections send are UPDATEs of one table
Tables == {"A"}
StatementActions == {"WRITE"}
\* the statements that change the storage
DML == {"INSERT", "UPDATE", "DELETE"}
DDL == {"CREATE TABLE", "DROP TABLE"}
RowActions == {"READ", "WRITE"}
Tx == 1..MaxTx
None == 0

(* --------------------------- TransactionStatus ------------------------ *)
ACTIVE == "active"
PARTIALLY_COMMITTED == "partially_committed"
COMMITTED == "committed"
FAILED == "failed"
ABORTED == "aborted"
TERMINATED == "terminated"

(* LockStatus of a ConcurrencyResponse *)
GRANTED == "GRANTED"
WAITING == "WAITING"
DENIED == "FAILED"

VARIABLES ccm, last, calls, wal, processor, handler, net

vars == <<ccm, last, calls, wal, processor, handler, net>>

(***************************************************************************)
(* ConcurrencyControlManager: the status machine.  Every operation takes   *)
(* the manager m and returns the manager after the call; a call that       *)
(* raises leaves m unchanged and is reported by the Can... predicates.     *)
(***************************************************************************)
transaction_exists(m, t) == t \in 1..Len(m.transactions)

transaction_get_status(m, t) == m.transactions[t].status

\* a check that lets a failed transaction go on
QueryableWhenFailed(m, t) == m.transactions[t].status \in {ACTIVE, FAILED}

transaction_is_queryable(m, t) == m.transactions[t].status = ACTIVE

Timestamp(m, t) == m.transactions[t].timestamp

SetStatus(m, t, s) ==
    [m EXCEPT !.transactions[t].status = s]

\* LockBasedConcurrencyControlManager.transaction_begin
NewTransaction(id) ==
    [status |-> ACTIVE, timestamp |-> id,
     shared_row_ids |-> {}, exclusive_row_ids |-> {}]

\* an id taken from the number of transactions that have not ended
NextIdAmongLive(m) ==
    Cardinality({t \in 1..Len(m.transactions) :
                    m.transactions[t].status # TERMINATED}) + 1

\* transaction_id = len(self.transactions) + 1
NextTransactionId(m) == Len(m.transactions) + 1

transaction_begin(m) ==
    LET id == NextTransactionId(m) IN
    [m EXCEPT !.transactions = Append(@, NewTransaction(id)),
              !.waiting_events[id] = FALSE]

CanCommit(m, t) == transaction_exists(m, t) /\ transaction_is_queryable(m, t)

CanCommitFlushed(m, t) ==
    transaction_exists(m, t) /\ transaction_get_status(m, t) = PARTIALLY_COMMITTED

CanRollback(m, t) == transaction_exists(m, t) /\ transaction_is_queryable(m, t)

transaction_rollback(m, t) == SetStatus(m, t, FAILED)

\* an abort that is accepted in any state but the last
CanAbortUnfinished(m, t) ==
    transaction_exists(m, t) /\ transaction_get_status(m, t) # TERMINATED

CanAbort(m, t) ==
    transaction_exists(m, t) /\ transaction_get_status(m, t) = FAILED

CanEnd(m, t) ==
    transaction_exists(m, t) /\ transaction_get_status(m, t) \in {COMMITTED, ABORTED}

(***************************************************************************)
(* Lock table of the Lock-Based manager.                                   *)
(***************************************************************************)
Holders(m, r) ==
    m.shared_locks[r] \cup
    (IF m.exclusive_locks[r] = None THEN {} ELSE {m.exclusive_locks[r]})

Holds(m, t, r) == t \in Holders(m, r)

\* a release that forgets the shared locks
transaction_release_exclusive_only(m, t) ==
    LET tr == m.transactions[t] IN
    [m EXCEPT
       !.exclusive_locks = [r \in Resources |->
            IF r \in tr.exclusive_row_ids /\ @[r] = t THEN None ELSE @[r]]]

\* __transaction_release_locks: drop t from the shared holders of every
\* resource in its shared_row_ids and free every resource in its
\* exclusive_row_ids that it still holds exclusively.
transaction_release_locks(m, t) ==
    LET tr == m.transactions[t] IN
    [m EXCEPT
       !.shared_locks = [r \in Resources |->
            IF r \in tr.shared_row_ids THEN @[r] \ {t} ELSE @[r]],
       !.exclusive_locks = [r \in Resources |->
            IF r \in tr.exclusive_row_ids /\ @[r] = t THEN None ELSE @[r]]]

\* a commit that gives the locks up at once
transaction_commit_releasing(m, t) ==
    transaction_release_locks(SetStatus(m, t, PARTIALLY_COMMITTED), t)

\* transaction_commit: ACTIVE becomes PARTIALLY_COMMITTED, nothing else changes
transaction_commit(m, t) == SetStatus(m, t, PARTIALLY_COMMITTED)

\* resources a finishing transaction gives up
ReleasedResources(m, t) ==
    m.transactions[t].shared_row_ids \cup m.transactions[t].exclusive_row_ids

\* a wake-up that signals one waiter of each released resource only
process_wait_queue_head(m, rs) ==
    LET Oldest(ws) == {w \in ws : \A v \in ws : w <= v}
        woken == UNION {Oldest(m.resource_waiters[r]) : r \in rs}
    IN
    [m EXCEPT
       !.waiting_events = [t \in Tx |-> IF t \in woken THEN TRUE ELSE @[t]],
       !.resource_waiters = [r \in Resources |-> IF r \in rs THEN {} ELSE @[r]]]

\* wake-up on release: the event of every transaction waiting on a released
\* resource is set, and the resource's waiter set is emptied
process_wait_queue(m, rs) ==
    LET woken == UNION {m.resource_waiters[r] : r \in rs} IN
    [m EXCEPT
       !.waiting_events = [t \in Tx |-> IF t \in woken THEN TRUE ELSE @[t]],
       !.resource_waiters = [r \in Resources |-> IF r \in rs THEN {} ELSE @[r]]]

transaction_commit_flushed(m, t) ==
    process_wait_queue(
        transaction_release_locks(SetStatus(m, t, COMMITTED), t),
        ReleasedResources(m, t))

transaction_abort(m, t) ==
    process_wait_queue(
        transaction_release_locks(SetStatus(m, t, ABORTED), t),
        ReleasedResources(m, t))

\* transaction_end; the ended transaction's event and waiter entries go away
cleanup_waiter(m, t) ==
    [m EXCEPT
       !.waiting_events[t] = FALSE,
       !.resource_waiters = [r \in Resources |-> @[r] \ {t}]]

transaction_end(m, t) == cleanup_waiter(SetStatus(m, t, TERMINATED), t)

(***************************************************************************)
(* transaction_query.  A response is [m, status, reason].                  *)
(***************************************************************************)
Response(m, s, why, by) ==
    [m |-> m, status |-> s, reason |-> why, blocked_by |-> by]

\* a WRITE that does not look at the shared holders
BlockersIgnoringReaders(m, t, a, r) ==
    IF m.exclusive_locks[r] \notin {None, t} THEN {m.exclusive_locks[r]} ELSE {}

\* a READ that does not look at the exclusive holder
BlockersIgnoringWriter(m, t, a, r) ==
    IF a = "READ" THEN {}
    ELSE IF m.exclusive_locks[r] = t THEN {}
         ELSE IF m.exclusive_locks[r] # None THEN {m.exclusive_locks[r]}
         ELSE m.shared_locks[r] \ {t}

\* an upgrade that does not look at the other shared holders
BlockersUpgradingPastReaders(m, t, a, r) ==
    IF a = "READ"
    THEN IF m.exclusive_locks[r] \notin {None, t}
         THEN {m.exclusive_locks[r]} ELSE {}
    ELSE IF m.exclusive_locks[r] = t THEN {}
         ELSE IF m.exclusive_locks[r] # None THEN {m.exclusive_locks[r]}
         ELSE IF t \in m.shared_locks[r] THEN {}
         ELSE m.shared_locks[r]

\* the holders that stand in the way of the request (empty: grantable)
Blockers(m, t, a, r) ==
    LET exclusive_holder == m.exclusive_locks[r]
        shared_holders == m.shared_locks[r]
    IN  IF a = "READ"
        THEN IF exclusive_holder # None /\ exclusive_holder # t
             THEN {exclusive_holder} ELSE {}
        ELSE IF exclusive_holder = t THEN {}
             ELSE IF exclusive_holder # None THEN {exclusive_holder}
             ELSE shared_holders \ {t}

\* the lock table after the request is granted
GrantLock(m, t, a, r) ==
    IF a = "READ"
    THEN IF m.exclusive_locks[r] # None
         THEN m  \* the requester is the exclusive holder already
         ELSE [m EXCEPT !.shared_locks[r] = @ \cup {t},
                        !.transactions[t].shared_row_ids = @ \cup {r}]
    ELSE IF m.exclusive_locks[r] = t
         THEN m
         ELSE [m EXCEPT !.shared_locks[r] = @ \ {t},
                        !.transactions[t].shared_row_ids = @ \ {r},
                        !.transactions[t].exclusive_row_ids = @ \cup {r},
                        !.exclusive_locks[r] = t]

\* the comparison turned round: the younger requester waits
YoungerThanAll(m, t, hs) == \A h \in hs : Timestamp(m, t) > Timestamp(m, h)

\* Wait-Die: the requester waits when it is older than every holder in its
\* way, otherwise it dies
OlderThanAll(m, t, hs) == \A h \in hs : Timestamp(m, t) < Timestamp(m, h)

\* a registration that leaves the waiter on every resource
register_waiter_everywhere(m, t, r) ==
    [m EXCEPT !.resource_waiters = [q \in Resources |-> @[q] \cup {t}],
              !.waiting_events[t] = FALSE]

register_waiter(m, t, r) ==
    [m EXCEPT !.resource_waiters[r] = @ \cup {t},
              !.waiting_events[t] = FALSE]

wait_die(m, t, r, hs) ==
    IF OlderThanAll(m, t, hs)
    THEN Response(register_waiter(m, t, r), WAITING, "wait-die: wait", hs)
    ELSE Response(SetStatus(m, t, FAILED), DENIED, "wait-die: die", hs)

\* a request of a transaction that is not ACTIVE raises and changes nothing
transaction_query(m, t, a, r) ==
    IF ~transaction_is_queryable(m, t)
    THEN Response(m, DENIED, "not active", {})
    ELSE IF Blockers(m, t, a, r) = {}
         THEN Response(GrantLock(m, t, a, r), GRANTED, "granted", {})
         ELSE wait_die(m, t, r, Blockers(m, t, a, r))

(***************************************************************************)
(* Initial state.                                                          *)
(***************************************************************************)
NoCall == [op |-> "none", tid |-> None, action |-> "READ", res |-> "A",
           status |-> GRANTED, reason |-> "", followup |-> 0, blocked_by |-> {},
           client |-> 0, wait |-> "none", order |-> <<>>,
           item |-> <<>>]

Call(op, t, a, r, s, why) ==
    [op |-> op, tid |-> t, action |-> a, res |-> r, status |-> s, reason |-> why,
     followup |-> 0, blocked_by |-> {}, client |-> 0, wait |-> "none",
     order |-> <<>>, item |-> <<>>]

InitCCM ==
    [transactions |-> <<>>,
     shared_locks |-> [r \in Resources |-> {}],
     exclusive_locks |-> [r \in Resources |-> None],
     resource_waiters |-> [r \in Resources |-> {}],
     waiting_events |-> [t \in Tx |-> FALSE]]


(***************************************************************************)
(* IntegratedConcurrencyManager: the wrapper the processor talks to.       *)
(* A result is [m, ok].                                                    *)
(***************************************************************************)
Result(m, ok) == [m |-> m, ok |-> ok]

\* commit_transaction: transaction_commit, transaction_commit_flushed and
\* transaction_end in one call
icm_commit_transaction(m, t) ==
    IF ~transaction_exists(m, t) THEN Result(m, FALSE)
    ELSE IF transaction_get_status(m, t) # ACTIVE THEN Result(m, FALSE)
    ELSE Result(transaction_end(
                  transaction_commit_flushed(transaction_commit(m, t), t), t),
                TRUE)

\* commit_flushed: transaction_commit_flushed; an exception becomes False
icm_commit_flushed(m, t) ==
    IF CanCommitFlushed(m, t) THEN Result(transaction_commit_flushed(m, t), TRUE)
    ELSE Result(m, FALSE)

\* rollback_transaction: marks an ACTIVE transaction FAILED
icm_rollback_transaction(m, t) ==
    IF ~transaction_exists(m, t) THEN Result(m, FALSE)
    ELSE IF transaction_get_status(m, t) = ACTIVE
         THEN Result(transaction_rollback(m, t), TRUE)
         ELSE IF transaction_get_status(m, t) \in {FAILED, ABORTED}
              THEN Result(m, TRUE)
              ELSE Result(m, FALSE)

\* end_transaction: transaction_end, and on failure abort followed by end
icm_end_transaction(m, t) ==
    IF CanEnd(m, t) THEN Result(transaction_end(m, t), TRUE)
    ELSE IF CanAbort(m, t)
         THEN Result(transaction_end(transaction_abort(m, t), t), TRUE)
         ELSE Result(m, FALSE)

\* request_lock: transaction_query; an exception becomes FAILED
icm_request_lock(m, t, r, a) ==
    IF ~transaction_exists(m, t) THEN Response(m, DENIED, "", {})
    ELSE transaction_query(m, t, a, r)

(***************************************************************************)
(* FailureRecoveryManager: the log buffer, the log file and last_lsn.      *)
(***************************************************************************)
CheckpointThreshold == 10

\* the table of a record is never filled in
NoTable == "-"

LogRecord(lsn, t, type) ==
    [lsn |-> lsn, txid |-> t, log_type |-> type, table |-> NoTable]

\* _save_checkpoint with the buffer cleared although no record was written
save_checkpoint_clearing(w) ==
    IF w.buffer = <<>> /\ w.last_lsn = 0 THEN w
    ELSE [w EXCEPT !.buffer = <<>>, !.last_lsn = @ + 1]

\* _save_checkpoint: nothing to do on a fresh log.  With records in the
\* buffer the first cls._append_json_line("wal.log", rec.to_dict()) raises
\* TypeError (the helper is declared without @classmethod, so the call
\* lacks its third argument): the call ends there, nothing is written to
\* the log file, the buffer is not cleared and last_lsn is not advanced.
\* With an empty buffer the CHECKPOINT lsn is taken; the CHECKPOINT record
\* itself is a dict that is never stored.
save_checkpoint(w) ==
    IF w.buffer = <<>> /\ w.last_lsn = 0 THEN w
    ELSE IF w.buffer # <<>> THEN w
    ELSE [w EXCEPT !.last_lsn = @ + 1]

\* write_log: BEGIN, COMMIT and operations append a record to the buffer,
\* ABORT appends nothing
write_log(w, t, query) ==
    LET lsn == w.last_lsn + 1 IN
    IF query = "ABORT"
    THEN [w EXCEPT !.last_lsn = lsn]
    ELSE [w EXCEPT !.last_lsn = lsn,
                   !.buffer = Append(@, LogRecord(lsn, t,
                        IF query = "BEGIN" THEN "START"
                        ELSE IF query = "COMMIT" THEN "COMMIT"
                        ELSE "OPERATION"))]

\* IntegratedFailureRecoveryManager.write_log: a COMMIT that leaves more than
\* ten records in the buffer triggers a checkpoint
frm_write_log(w, t, query) ==
    LET w1 == write_log(w, t, query) IN
    IF query = "COMMIT" /\ Len(w1.buffer) > CheckpointThreshold
    THEN save_checkpoint(w1) ELSE w1

Appended(w, t, type) ==
    \E i \in 1..Len(w.file \o w.buffer) :
        (w.file \o w.buffer)[i].txid = t /\ (w.file \o w.buffer)[i].log_type = type

Durable(w, t, type) ==
    \E i \in 1..Len(w.file) : w.file[i].txid = t /\ w.file[i].log_type = type

(***************************************************************************)
(* ClientHandler.                                                          *)
(***************************************************************************)
Clients == 1..MaxClients

NoEvent == "none"
CCMEvent == "ccm"

\* an item that carries the manager's event of its transaction
RetryItemCarriesEvent(t) == CCMEvent

\* _add_to_retry_queue builds the RetryItem without a wait_event
RetryItemEvent(t) == NoEvent

\* followups counts the follow-up responses pushed for the item so far, and
\* blocked_by remembers the holders that stood in its way when it was queued
RetryItem(c, k, t, a, r, by) ==
    [id |-> k, client_id |-> c, transaction_id |-> t,
     action |-> a, res |-> r, wait_event |-> RetryItemEvent(t),
     followups |-> 0, blocked_by |-> by, priority |-> 0]

\* an item that is built and then lost
add_to_retry_queue_lost(q, item) == q

\* _add_to_retry_queue: failed_by is never known, the item goes to the queue
add_to_retry_queue(q, item) == Append(q, item)

\* a worker that stays in the lock request until the lock is free
WorkerBlocksOnLock(status) == IF status = WAITING THEN "blocked" ELSE "idle"

\* the worker returns from _handle_execute with the response in hand
WorkerAfterExecute(status) == "idle"

\* a wait on the event object the item carries and on nothing else
WaitOnItemEventOnly(m, item) ==
    item.wait_event = CCMEvent /\ m.waiting_events[item.transaction_id]

\* the dispatcher's wait on the item: a half-second sleep when the item
\* carries no event, otherwise an event wait that ends when the event is set
\* or after thirty seconds
WaitCompletes(m, item) ==
    IF item.wait_event = NoEvent
    THEN TRUE   \* time.sleep(0.5) returns
    ELSE TRUE   \* the event is set, or wait(timeout=30.0) gives up

\* what the dispatcher waited on before it re-executes the item: the fixed
\* half-second sleep, or the item's event with its thirty-second limit
WaitKind(item) ==
    IF item.wait_event = NoEvent THEN "sleep" ELSE "event_or_timeout"

\* the re-queue test after a retry
StillLockDenied(status) == status = WAITING

Bump(n) == IF n < MaxFollow THEN n + 1 ELSE MaxFollow

Init ==
    /\ ccm = InitCCM
    /\ last = NoCall
    /\ calls = 0
    /\ wal = [buffer |-> <<>>, file |-> <<>>, last_lsn |-> 0]
    /\ processor = [active_transactions |-> {}, committed |-> {},
                    storage |-> [catalog |-> {}, applied |-> {}]]
    /\ handler = [clients |-> Clients,
                  pc |-> [c \in Clients |-> "idle"],
                  retry_queue |-> <<>>,
                  dispatcher |-> "idle",
                  clock |-> 0,
                  wire |-> <<>>,
                  sendall |-> [th \in {"worker", "dispatcher"} |-> 0]]
    /\ net = [tid |-> [c \in Clients |-> None],
              open |-> [c \in Clients |-> FALSE],
              sent |-> 0,
              committed |-> {}]

serverVars == <<wal, processor, handler, net>>

(***************************************************************************)
(* The manager driven directly through its own interface.                  *)
(***************************************************************************)
Budget == calls < MaxCalls /\ calls' = calls + 1

Begin ==
    /\ Budget
    /\ Len(ccm.transactions) < MaxTx
    /\ ccm' = transaction_begin(ccm)
    /\ last' = Call("begin", NextTransactionId(ccm), "READ", "A", GRANTED, "")
    /\ UNCHANGED serverVars

Query(t, a, r) ==
    /\ Budget
    /\ transaction_exists(ccm, t)
    /\ LET resp == transaction_query(ccm, t, a, r) IN
         /\ ccm' = resp.m
         /\ last' = Call("query", t, a, r, resp.status, resp.reason)
    /\ UNCHANGED serverVars

Commit(t) ==
    /\ Budget
    /\ CanCommit(ccm, t)
    /\ ccm' = transaction_commit(ccm, t)
    /\ last' = NoCall
    /\ UNCHANGED serverVars

CommitFlushed(t) ==
    /\ Budget
    /\ CanCommitFlushed(ccm, t)
    /\ ccm' = transaction_commit_flushed(ccm, t)
    /\ last' = NoCall
    /\ UNCHANGED serverVars

Rollback(t) ==
    /\ Budget
    /\ CanRollback(ccm, t)
    /\ ccm' = transaction_rollback(ccm, t)
    /\ last' = NoCall
    /\ UNCHANGED serverVars

Abort(t) ==
    /\ Budget
    /\ CanAbort(ccm, t)
    /\ ccm' = transaction_abort(ccm, t)
    /\ last' = NoCall
    /\ UNCHANGED serverVars

End(t) ==
    /\ Budget
    /\ CanEnd(ccm, t)
    /\ ccm' = transaction_end(ccm, t)
    /\ last' = NoCall
    /\ UNCHANGED serverVars

NextCCM ==
    \/ Begin
    \/ \E t \in Tx, a \in RowActions, r \in Resources : Query(t, a, r)
    \/ \E t \in Tx : Commit(t)
    \/ \E t \in Tx : CommitFlushed(t)
    \/ \E t \in Tx : Rollback(t)
    \/ \E t \in Tx : Abort(t)
    \/ \E t \in Tx : End(t)

SpecCCM == Init /\ [][NextCCM]_vars

(***************************************************************************)
(* The wrapper driven directly, together with the manager's own calls.     *)
(***************************************************************************)
WrapperBudget == calls < MaxWrapperCalls /\ calls' = calls + 1

\* what a wrapper call leaves behind: the manager after the call, and the
\* call with its boolean result
WrapperReturns(op, t, res) ==
    /\ ccm' = res.m
    /\ last' = Call(op, t, "READ", "A", IF res.ok THEN GRANTED ELSE DENIED, "")

IcmCommitTransaction(t) ==
    /\ WrapperBudget
    /\ WrapperReturns("commit_transaction", t, icm_commit_transaction(ccm, t))
    /\ UNCHANGED serverVars

IcmCommitFlushed(t) ==
    /\ WrapperBudget
    /\ WrapperReturns("commit_flushed", t, icm_commit_flushed(ccm, t))
    /\ UNCHANGED serverVars

IcmRollbackTransaction(t) ==
    /\ WrapperBudget
    /\ WrapperReturns("rollback_transaction", t, icm_rollback_transaction(ccm, t))
    /\ UNCHANGED serverVars

IcmEndTransaction(t) ==
    /\ WrapperBudget
    /\ WrapperReturns("end_transaction", t, icm_end_transaction(ccm, t))
    /\ UNCHANGED serverVars

NextICM ==
    \/ Begin
    \/ \E t \in Tx, a \in RowActions, r \in Resources : Query(t, a, r)
    \/ \E t \in Tx : Commit(t)
    \/ \E t \in Tx : CommitFlushed(t)
    \/ \E t \in Tx : Rollback(t)
    \/ \E t \in Tx : Abort(t)
    \/ \E t \in Tx : End(t)
    \/ \E t \in Tx : IcmCommitTransaction(t)
    \/ \E t \in Tx : IcmCommitFlushed(t)
    \/ \E t \in Tx : IcmRollbackTransaction(t)
    \/ \E t \in Tx : IcmEndTransaction(t)

SpecICM == Init /\ [][NextICM]_vars

(***************************************************************************)
(* The query processor driven directly: statements, commit and rollback.   *)
(***************************************************************************)
ProcessorBudget == calls < MaxProcessorCalls /\ calls' = calls + 1

\* a change made to the storage on behalf of a transaction
Mutation(t, kind, table) == [txid |-> t, kind |-> kind, table |-> table]

\* IntegratedStorageManager: CREATE TABLE enters the table in the catalog,
\* DROP TABLE removes it and fails when it is not there, the other
\* statements write to the table's data
StorageAccepts(st, kind, table) ==
    kind = "DROP TABLE" => table \in st.catalog

storage_apply(st, t, kind, table) ==
    [catalog |-> IF kind = "CREATE TABLE" THEN st.catalog \cup {table}
                 ELSE IF kind = "DROP TABLE" THEN st.catalog \ {table}
                 ELSE st.catalog,
     applied |-> st.applied \cup {Mutation(t, kind, table)}]

\* log_query: the statement is logged as an OPERATION record
log_query(w, t, kind) == frm_write_log(w, t, kind)

\* _get_or_create_transaction: an id the processor does not know is
\* registered and its START is logged
get_or_create_transaction(w, active, t) ==
    IF t \in active THEN w ELSE frm_write_log(w, t, "BEGIN")

ProcessorBegin ==
    /\ ProcessorBudget
    /\ Len(ccm.transactions) < MaxTx
    /\ ccm' = transaction_begin(ccm)
    /\ processor' = [processor EXCEPT
                       !.active_transactions = @ \cup {NextTransactionId(ccm)}]
    /\ last' = NoCall
    /\ UNCHANGED <<wal, handler, net>>

\* execute_query with a transaction id: the statement is logged, the
\* transaction is looked up, and the visitor of the statement runs.
\* visit_insert / visit_update / visit_delete ask for the WRITE lock of the
\* table and touch the storage when it is granted; visit_create_table and
\* visit_drop_table go to the storage at once.
ExecuteQuery(t, kind, table) ==
    /\ ProcessorBudget
    /\ transaction_exists(ccm, t)
    /\ LET w1 == log_query(wal, t, kind)
           w2 == get_or_create_transaction(w1, processor.active_transactions, t)
           resp == IF kind \in DML
                   THEN icm_request_lock(ccm, t, table, "WRITE")
                   ELSE Response(ccm, GRANTED, "no lock requested", {})
           done == resp.status = GRANTED
                   /\ StorageAccepts(processor.storage, kind, table)
       IN  /\ wal' = w2
           /\ ccm' = resp.m
           /\ processor' = [processor EXCEPT
                 !.active_transactions = @ \cup {t},
                 !.storage = IF done THEN storage_apply(@, t, kind, table) ELSE @]
           /\ last' = Call("statement", t, kind, table,
                           IF done THEN GRANTED ELSE DENIED, resp.reason)
    /\ UNCHANGED <<handler, net>>

\* the error of a commit or rollback of an id the processor does not know
NotFound(t) == "Transaction '" \o ToString(t) \o "' not found"

\* a finished transaction that stays in active_transactions
keep_transaction(active, t) == active

\* del self.active_transactions[transaction_id]
forget_transaction(active, t) == active \ {t}

\* commit_transaction: unknown ids are refused; the concurrency manager
\* commits and releases, then the COMMIT record is logged
CommitTransaction(t) ==
    /\ ProcessorBudget
    /\ transaction_exists(ccm, t)
    /\ IF t \notin processor.active_transactions
       THEN /\ last' = Call("commit", t, "WRITE", "A", DENIED, NotFound(t))
            /\ UNCHANGED <<ccm, wal, processor>>
       ELSE LET res == icm_commit_transaction(ccm, t) IN
            /\ ccm' = res.m
            /\ last' = Call("commit", t, "WRITE", "A",
                            IF res.ok THEN GRANTED ELSE DENIED, "")
            /\ IF res.ok
               THEN /\ wal' = frm_write_log(wal, t, "COMMIT")
                    /\ processor' = [processor EXCEPT
                          !.committed = @ \cup {t},
                          !.active_transactions = forget_transaction(@, t)]
               ELSE UNCHANGED <<wal, processor>>
    /\ UNCHANGED <<handler, net>>

\* rollback_transaction: unknown ids are refused; rollback and end in the
\* concurrency manager, ABORT logged
RollbackTransaction(t) ==
    /\ ProcessorBudget
    /\ transaction_exists(ccm, t)
    /\ IF t \notin processor.active_transactions
       THEN /\ last' = Call("rollback", t, "WRITE", "A", DENIED, NotFound(t))
            /\ UNCHANGED <<ccm, wal, processor>>
       ELSE /\ ccm' = icm_end_transaction(icm_rollback_transaction(ccm, t).m, t).m
            /\ wal' = frm_write_log(wal, t, "ABORT")
            /\ processor' = [processor EXCEPT
                  !.active_transactions = forget_transaction(@, t)]
            /\ last' = Call("rollback", t, "WRITE", "A", GRANTED, "")
    /\ UNCHANGED <<handler, net>>

NextProcessor ==
    \/ ProcessorBegin
    \/ \E t \in Tx, kind \in DML \cup DDL, table \in Tables :
          ExecuteQuery(t, kind, table)
    \/ \E t \in Tx : CommitTransaction(t)
    \/ \E t \in Tx : RollbackTransaction(t)

SpecProcessor == Init /\ [][NextProcessor]_vars

(***************************************************************************)
(* The FailureRecoveryManager driven directly: write_log and checkpoint.   *)
(***************************************************************************)
LogQueries == {"BEGIN", "COMMIT", "ABORT", "INSERT"}

LogBudget == calls < MaxLogCalls /\ calls' = calls + 1

WriteLog(t, query) ==
    /\ LogBudget
    /\ wal' = write_log(wal, t, query)
    /\ last' = Call("write_log", t, query, "A", GRANTED, "")
    /\ UNCHANGED <<ccm, processor, handler, net>>

SaveCheckpoint ==
    /\ LogBudget
    /\ wal' = save_checkpoint(wal)
    /\ last' = Call("checkpoint", None, "READ", "A",
                    IF wal.buffer # <<>> THEN DENIED ELSE GRANTED,
                    IF wal.buffer # <<>> THEN "TypeError" ELSE "")
    /\ UNCHANGED <<ccm, processor, handler, net>>

NextWAL ==
    \/ \E t \in Tx, query \in LogQueries : WriteLog(t, query)
    \/ SaveCheckpoint

SpecWAL == Init /\ [][NextWAL]_vars

(***************************************************************************)
(* The query processor up to a kill of the server and its restart.         *)
(***************************************************************************)
\* FailureRecoveryManager.recover: the body is `pass`; the storage is
\* neither redone nor undone
recover(st, w) == st

\* what a new server process finds: the log file without the buffer of the
\* killed process, last_lsn at its class default
wal_after_restart(w) == [buffer |-> <<>>, file |-> w.file, last_lsn |-> 0]

\* The server is killed and started again, and recovery runs.  The catalog
\* file and the data files keep what the statements wrote; the concurrency
\* manager and the processor's transactions are those of a new process.
\* The run is followed up to the recovery.
KillAndRecover ==
    /\ calls < MaxProcessorCalls
    /\ calls' = MaxProcessorCalls
    /\ wal' = wal_after_restart(wal)
    /\ ccm' = InitCCM
    /\ processor' = [processor EXCEPT
                       !.active_transactions = {},
                       !.storage = recover(@, wal_after_restart(wal))]
    /\ last' = Call("recover", None, "READ", "A", GRANTED, "")
    /\ UNCHANGED <<handler, net>>

NextRecovery ==
    \/ ProcessorBegin
    \/ \E t \in Tx, kind \in DML \cup DDL, table \in Tables :
          ExecuteQuery(t, kind, table)
    \/ \E t \in Tx : CommitTransaction(t)
    \/ \E t \in Tx : RollbackTransaction(t)
    \/ KillAndRecover

SpecRecovery == Init /\ [][NextRecovery]_vars

(***************************************************************************)
(* Timestamp-Ordering manager (Thomas Write Rule).  The status machine is  *)
(* that of ConcurrencyControlManager; each resource has a read and a write *)
(* timestamp, both 0 at the start; a transaction's timestamp is its id.    *)
(***************************************************************************)
InitTSCCM ==
    [transactions |-> <<>>,
     read_ts |-> [r \in Resources |-> 0],
     write_ts |-> [r \in Resources |-> 0]]

ts_transaction_begin(m) ==
    [m EXCEPT !.transactions =
        Append(@, [status |-> ACTIVE, timestamp |-> NextTransactionId(m)])]

Max(a, b) == IF a >= b THEN a ELSE b

\* a read timestamp that is overwritten by the reader's timestamp
ReadTsOverwritten(m, t, r) == Timestamp(m, t)

\* the read timestamp after a granted READ
NewReadTs(m, t, r) == Max(m.read_ts[r], Timestamp(m, t))

\* a READ that is granted whatever was written
ts_read_unchecked(m, t, r) ==
    Response([m EXCEPT !.read_ts[r] = NewReadTs(m, t, r)], GRANTED, "granted", {})

\* READ: too old when a younger transaction has written the resource
ts_read(m, t, r) ==
    IF Timestamp(m, t) < m.write_ts[r]
    THEN Response(SetStatus(m, t, FAILED), DENIED, "timestamp too old", {})
    ELSE Response([m EXCEPT !.read_ts[r] = NewReadTs(m, t, r)],
                  GRANTED, "granted", {})

\* a WRITE without the Thomas Write Rule: the late write is stamped
ts_write_stamping_late(m, t, r) ==
    IF Timestamp(m, t) < m.read_ts[r]
    THEN Response(SetStatus(m, t, FAILED), DENIED, "timestamp too old", {})
    ELSE Response([m EXCEPT !.write_ts[r] = Timestamp(m, t)],
                  GRANTED, "granted", {})

\* WRITE: too old when a younger transaction has read the resource; a write
\* older than the last write is granted and ignored; otherwise it is stamped
ts_write(m, t, r) ==
    IF Timestamp(m, t) < m.read_ts[r]
    THEN Response(SetStatus(m, t, FAILED), DENIED, "timestamp too old", {})
    ELSE IF Timestamp(m, t) < m.write_ts[r]
         THEN Response(m, GRANTED, "ignored write", {})
         ELSE Response([m EXCEPT !.write_ts[r] = Timestamp(m, t)],
                       GRANTED, "granted", {})

ts_transaction_query(m, t, a, r) ==
    IF ~transaction_is_queryable(m, t)
    THEN Response(m, DENIED, "not active", {})
    ELSE IF a = "READ" THEN ts_read(m, t, r) ELSE ts_write(m, t, r)

InitTO ==
    /\ ccm = InitTSCCM
    /\ last = NoCall
    /\ calls = 0
    /\ wal = [buffer |-> <<>>, file |-> <<>>, last_lsn |-> 0]
    /\ processor = [active_transactions |-> {}, committed |-> {},
                    storage |-> [catalog |-> {}, applied |-> {}]]
    /\ handler = [clients |-> Clients,
                  pc |-> [c \in Clients |-> "idle"],
                  retry_queue |-> <<>>,
                  dispatcher |-> "idle",
                  clock |-> 0,
                  wire |-> <<>>,
                  sendall |-> [th \in {"worker", "dispatcher"} |-> 0]]
    /\ net = [tid |-> [c \in Clients |-> None],
              open |-> [c \in Clients |-> FALSE],
              sent |-> 0,
              committed |-> {}]

TsBudget == calls < MaxTsCalls /\ calls' = calls + 1

TsBegin ==
    /\ TsBudget
    /\ Len(ccm.transactions) < MaxTx
    /\ ccm' = ts_transaction_begin(ccm)
    /\ last' = Call("begin", NextTransactionId(ccm), "READ", "A", GRANTED, "")
    /\ UNCHANGED serverVars

TsQuery(t, a, r) ==
    /\ TsBudget
    /\ transaction_exists(ccm, t)
    /\ LET resp == ts_transaction_query(ccm, t, a, r) IN
        /\ ccm' = resp.m
        /\ last' = Call("query", t, a, r, resp.status, resp.reason)
    /\ UNCHANGED serverVars

\* commit, commit_flushed and end of an ACTIVE transaction
TsCommit(t) ==
    /\ TsBudget
    /\ CanCommit(ccm, t)
    /\ ccm' = SetStatus(ccm, t, TERMINATED)
    /\ last' = Call("commit", t, "READ", "A", GRANTED, "")
    /\ UNCHANGED serverVars

\* rollback of an ACTIVE transaction, abort and end
TsRollback(t) ==
    /\ TsBudget
    /\ transaction_exists(ccm, t)
    /\ transaction_get_status(ccm, t) \in {ACTIVE, FAILED}
    /\ ccm' = SetStatus(ccm, t, TERMINATED)
    /\ last' = Call("rollback", t, "READ", "A", GRANTED, "")
    /\ UNCHANGED serverVars

NextTO ==
    \/ TsBegin
    \/ \E t \in Tx, a \in RowActions, r \in Resources : TsQuery(t, a, r)
    \/ \E t \in Tx : TsCommit(t)
    \/ \E t \in Tx : TsRollback(t)

SpecTO == InitTO /\ [][NextTO]_vars

(***************************************************************************)
(* Validation-Based manager (backward OCC) behind the wrapper.  Every      *)
(* request is granted and recorded in the read-set or the write-set; the   *)
(* commit validates against the transactions that finished since the       *)
(* transaction started.  start, validation and finish take their           *)
(* timestamps from one clock.                                              *)
(***************************************************************************)
InitOCCM == [transactions |-> <<>>, clock |-> 0]

NoTs == 0

occ_transaction_begin(m) ==
    [transactions |-> Append(m.transactions,
        [status |-> ACTIVE, timestamp |-> NextTransactionId(m),
         read_set |-> {}, write_set |-> {},
         start_ts |-> m.clock + 1, validation_ts |-> NoTs, finish_ts |-> NoTs]),
     clock |-> m.clock + 1]

occ_transaction_query(m, t, a, r) ==
    IF ~transaction_is_queryable(m, t)
    THEN Response(m, DENIED, "not active", {})
    ELSE Response(IF a = "READ"
                  THEN [m EXCEPT !.transactions[t].read_set = @ \cup {r}]
                  ELSE [m EXCEPT !.transactions[t].write_set = @ \cup {r}],
                  GRANTED, "granted", {})

\* the committed transactions that finished between the start of t and vts
FinishedInWindow(m, t, vts) ==
    {u \in 1..Len(m.transactions) :
        /\ m.transactions[u].finish_ts # NoTs
        /\ m.transactions[t].start_ts <= m.transactions[u].finish_ts
        /\ m.transactions[u].finish_ts <= vts}

\* a validation that looks at nothing
NoValidationConflict(m, t, vts) == FALSE

ValidationConflict(m, t, vts) ==
    \E u \in FinishedInWindow(m, t, vts) :
        m.transactions[t].read_set \cap m.transactions[u].write_set # {}

\* commit: the validation
occ_transaction_commit(m, t) ==
    LET vts == m.clock + 1 IN
    IF ValidationConflict(m, t, vts)
    THEN Response([SetStatus(m, t, FAILED) EXCEPT !.clock = vts],
                  DENIED, "validation failure", {})
    ELSE Response([m EXCEPT !.transactions[t].status = PARTIALLY_COMMITTED,
                            !.transactions[t].validation_ts = vts,
                            !.clock = vts],
                  GRANTED, "validated", {})

\* commit_flushed: the write phase is over
occ_transaction_commit_flushed(m, t) ==
    [m EXCEPT !.transactions[t].status = COMMITTED,
              !.transactions[t].finish_ts = m.clock + 1,
              !.clock = m.clock + 1]

\* IntegratedConcurrencyManager.commit_transaction on this manager
occ_commit_transaction(m, t) ==
    IF ~transaction_exists(m, t) THEN Response(m, DENIED, "not found", {})
    ELSE IF transaction_get_status(m, t) # ACTIVE
    THEN Response(m, DENIED, "not active", {})
    ELSE LET resp == occ_transaction_commit(m, t) IN
         IF resp.status = DENIED THEN resp
         ELSE Response(SetStatus(occ_transaction_commit_flushed(resp.m, t),
                                 t, TERMINATED),
                       GRANTED, "committed", {})

InitOCC ==
    /\ ccm = InitOCCM
    /\ last = NoCall
    /\ calls = 0
    /\ wal = [buffer |-> <<>>, file |-> <<>>, last_lsn |-> 0]
    /\ processor = [active_transactions |-> {}, committed |-> {},
                    storage |-> [catalog |-> {}, applied |-> {}]]
    /\ handler = [clients |-> Clients,
                  pc |-> [c \in Clients |-> "idle"],
                  retry_queue |-> <<>>,
                  dispatcher |-> "idle",
                  clock |-> 0,
                  wire |-> <<>>,
                  sendall |-> [th \in {"worker", "dispatcher"} |-> 0]]
    /\ net = [tid |-> [c \in Clients |-> None],
              open |-> [c \in Clients |-> FALSE],
              sent |-> 0,
              committed |-> {}]

OccBudget == calls < MaxOccCalls /\ calls' = calls + 1

OccBegin ==
    /\ OccBudget
    /\ Len(ccm.transactions) < MaxTx
    /\ ccm' = occ_transaction_begin(ccm)
    /\ last' = Call("begin", NextTransactionId(ccm), "READ", "A", GRANTED, "")
    /\ UNCHANGED serverVars

OccQuery(t, a, r) ==
    /\ OccBudget
    /\ transaction_exists(ccm, t)
    /\ LET resp == occ_transaction_query(ccm, t, a, r) IN
        /\ ccm' = resp.m
        /\ last' = Call("query", t, a, r, resp.status, resp.reason)
    /\ UNCHANGED serverVars

OccCommitTransaction(t) ==
    /\ OccBudget
    /\ transaction_exists(ccm, t)
    /\ LET resp == occ_commit_transaction(ccm, t) IN
        /\ ccm' = resp.m
        /\ last' = Call("commit", t, "READ", "A", resp.status, resp.reason)
    /\ UNCHANGED serverVars

\* rollback_transaction and end_transaction of the wrapper
OccRollbackTransaction(t) ==
    /\ OccBudget
    /\ transaction_exists(ccm, t)
    /\ transaction_get_status(ccm, t) \in {ACTIVE, FAILED}
    /\ ccm' = SetStatus(ccm, t, TERMINATED)
    /\ last' = Call("rollback", t, "READ", "A", GRANTED, "")
    /\ UNCHANGED serverVars

NextOCC ==
    \/ OccBegin
    \/ \E t \in Tx, a \in RowActions, r \in Resources : OccQuery(t, a, r)
    \/ \E t \in Tx : OccCommitTransaction(t)
    \/ \E t \in Tx : OccRollbackTransaction(t)

SpecOCC == InitOCC /\ [][NextOCC]_vars

(***************************************************************************)
(* The server: one worker per connection and the retry dispatcher.         *)
(* Connections are numbered in the order in which they send BEGIN.         *)
(***************************************************************************)
Ready(c) == c \in handler.clients /\ handler.pc[c] = "idle"

RequestBudget == calls < MaxRequests /\ calls' = calls + 1

\* _handle_begin
HandleBegin(c) ==
    /\ Ready(c)
    /\ RequestBudget
    /\ net.tid[c] = None
    /\ \A d \in Clients : d < c => net.tid[d] # None
    /\ Len(ccm.transactions) < MaxTx
    /\ ccm' = transaction_begin(ccm)
    /\ processor' = [processor EXCEPT
                       !.active_transactions = @ \cup {NextTransactionId(ccm)}]
    /\ net' = [net EXCEPT !.tid[c] = NextTransactionId(ccm), !.open[c] = TRUE]
    /\ last' = NoCall
    /\ UNCHANGED <<wal, handler>>

\* _handle_execute: the statement asks for its lock; a lock conflict is
\* answered with queued_for_retry and handed to the dispatcher
HandleExecute(c, a, r) ==
    /\ Ready(c)
    /\ RequestBudget
    /\ net.open[c]
    /\ net.sent < MaxExec
    /\ LET t == net.tid[c]
           k == net.sent + 1
           resp == icm_request_lock(ccm, t, r, a)
       IN  /\ ccm' = resp.m
           /\ last' = Call("execute", t, a, r, resp.status, resp.reason)
           /\ handler' = [handler EXCEPT
                 !.pc[c] = WorkerAfterExecute(resp.status),
                 !.retry_queue = IF resp.status = WAITING
                                 THEN add_to_retry_queue(@,
                                        RetryItem(c, k, t, a, r, resp.blocked_by))
                                 ELSE @]
           /\ net' = [net EXCEPT !.sent = k]
    /\ UNCHANGED <<wal, processor>>

\* _handle_commit, first half: the processor marks the transaction committed
\* and has the concurrency manager commit it
HandleCommit(c) ==
    /\ Ready(c)
    /\ RequestBudget
    /\ net.open[c]
    /\ LET t == net.tid[c]
           res == icm_commit_transaction(ccm, t)
       IN  /\ ccm' = res.m
           /\ IF res.ok
              THEN /\ processor' = [processor EXCEPT !.committed = @ \cup {t}]
                   /\ handler' = [handler EXCEPT !.pc[c] = "commit_log"]
              ELSE /\ UNCHANGED <<processor, handler>>
           /\ last' = Call("commit", t, "WRITE", "A",
                           IF res.ok THEN GRANTED ELSE DENIED, "")
    /\ UNCHANGED <<wal, net>>

\* _handle_commit, second half: the COMMIT record is logged, the transaction
\* leaves the registry and success is reported
CommitLog(c) ==
    /\ c \in handler.clients
    /\ handler.pc[c] = "commit_log"
    /\ LET t == net.tid[c] IN
         /\ wal' = frm_write_log(wal, t, "COMMIT")
         /\ processor' = [processor EXCEPT !.active_transactions = @ \ {t}]
         /\ net' = [net EXCEPT !.open[c] = FALSE, !.committed = @ \cup {t}]
    /\ handler' = [handler EXCEPT !.pc[c] = "idle"]
    /\ last' = NoCall
    /\ UNCHANGED <<calls, ccm>>

\* _handle_rollback: rollback and end in the concurrency manager, ABORT logged;
\* the retry queue is left as it is
HandleRollback(c) ==
    /\ Ready(c)
    /\ RequestBudget
    /\ net.open[c]
    /\ LET t == net.tid[c]
           m1 == icm_rollback_transaction(ccm, t).m
       IN  /\ ccm' = icm_end_transaction(m1, t).m
           /\ wal' = frm_write_log(wal, t, "ABORT")
           /\ processor' = [processor EXCEPT !.active_transactions = @ \ {t}]
           /\ last' = Call("rollback", t, "WRITE", "A", GRANTED, "")
    /\ net' = [net EXCEPT !.open[c] = FALSE]
    /\ UNCHANGED <<handler>>

\* a connection with an open transaction is closed; _client_worker forgets
\* the client
Disconnect(c) ==
    /\ Ready(c)
    /\ net.open[c]
    /\ RequestBudget
    /\ handler' = [handler EXCEPT !.clients = @ \ {c}]
    /\ last' = NoCall
    /\ UNCHANGED <<ccm, wal, processor, net>>

\* _retry_processor, one turn of its loop: the first item is taken from the
\* queue and waited for
RetryTurn ==
    /\ handler.retry_queue # <<>>
    /\ WaitCompletes(ccm, Head(handler.retry_queue))

\* ... the client of the item is gone: the item is skipped
RetrySkip ==
    /\ RetryTurn
    /\ Head(handler.retry_queue).client_id \notin handler.clients
    /\ handler' = [handler EXCEPT !.retry_queue = Tail(@)]
    /\ last' = NoCall
    /\ UNCHANGED <<calls, ccm, wal, processor, net>>

\* ... the statement is re-executed, the follow-up response is pushed, and
\* the item goes back to the queue when the lock is still denied
RetryAttempt ==
    /\ RetryTurn
    /\ Head(handler.retry_queue).client_id \in handler.clients
    /\ LET it == Head(handler.retry_queue)
           resp == icm_request_lock(ccm, it.transaction_id, it.res, it.action)
       IN  /\ ccm' = resp.m
           /\ handler' = [handler EXCEPT
                 !.retry_queue =
                     IF StillLockDenied(resp.status)
                     THEN Append(Tail(@), [it EXCEPT !.followups = Bump(@)])
                     ELSE Tail(@)]
           /\ last' = [Call("retry", it.transaction_id, it.action, it.res,
                            resp.status, resp.reason)
                         EXCEPT !.followup = Bump(it.followups),
                                !.wait = WaitKind(it),
                                !.blocked_by = it.blocked_by]
    /\ UNCHANGED <<calls, wal, processor, net>>

Dispatch == RetrySkip \/ RetryAttempt

NextServer ==
    \/ \E c \in Clients : HandleBegin(c)
    \/ \E c \in Clients, a \in StatementActions, r \in Tables :
          HandleExecute(c, a, r)
    \/ \E c \in Clients : HandleCommit(c)
    \/ \E c \in Clients : CommitLog(c)
    \/ \E c \in Clients : HandleRollback(c)
    \/ \E c \in Clients : Disconnect(c)
    \/ RetrySkip
    \/ RetryAttempt

SpecServer == Init /\ [][NextServer]_vars

\* the dispatcher thread keeps running
FairServer == SpecServer /\ WF_vars(Dispatch)

(***************************************************************************)
(* The server with the dispatcher thread followed step by step: the look   *)
(* at self.clients under clients_lock and the re-execution that follows it *)
(* are two steps, and a worker can run between them.                       *)
(***************************************************************************)
\* lines 341-344: the client of the item is gone, the item is skipped
DispatcherSkip ==
    /\ handler.dispatcher = "idle"
    /\ handler.retry_queue # <<>>
    /\ WaitCompletes(ccm, Head(handler.retry_queue))
    /\ Head(handler.retry_queue).client_id \notin handler.clients
    /\ handler' = [handler EXCEPT !.retry_queue = Tail(@)]
    /\ last' = NoCall
    /\ UNCHANGED <<calls, ccm, wal, processor, net>>

\* lines 341-345: the client is connected, its socket is taken and
\* clients_lock is released
DispatcherCheck ==
    /\ handler.dispatcher = "idle"
    /\ handler.retry_queue # <<>>
    /\ WaitCompletes(ccm, Head(handler.retry_queue))
    /\ Head(handler.retry_queue).client_id \in handler.clients
    /\ handler' = [handler EXCEPT !.dispatcher = "checked"]
    /\ last' = NoCall
    /\ UNCHANGED <<calls, ccm, wal, processor, net>>

\* lines 347-369: the statement is re-executed and the follow-up is sent; the
\* item goes back to the queue when the lock is still denied.  A send that
\* raises (the socket of a client that left meanwhile may or may not be
\* closed already) ends the turn at the except clause, before the re-queue.
DispatcherExecute ==
    /\ handler.dispatcher = "checked"
    /\ \E sent \in IF Head(handler.retry_queue).client_id \in handler.clients
                    THEN {TRUE} ELSE BOOLEAN :
         LET it == Head(handler.retry_queue)
             resp == icm_request_lock(ccm, it.transaction_id, it.res, it.action)
         IN  /\ ccm' = resp.m
             /\ handler' = [handler EXCEPT
                   !.dispatcher = "idle",
                   !.retry_queue =
                       IF sent /\ StillLockDenied(resp.status)
                       THEN Append(Tail(@), [it EXCEPT !.followups = Bump(@)])
                       ELSE Tail(@)]
             /\ last' = [Call("retry", it.transaction_id, it.action, it.res,
                              resp.status, resp.reason)
                           EXCEPT !.followup = Bump(it.followups),
                                  !.wait = WaitKind(it),
                                  !.blocked_by = it.blocked_by]
    /\ UNCHANGED <<calls, wal, processor, net>>

\* _handle_request with a type that is none of execute, begin, commit,
\* rollback: the error is returned, _client_worker sends it and reads the
\* next message
HandleUnknownType(c) ==
    /\ Ready(c)
    /\ RequestBudget
    /\ last' = [Call("unknown_type", net.tid[c], "READ", "A", FAILED,
                     "Unknown request type") EXCEPT !.client = c]
    /\ UNCHANGED <<ccm, wal, processor, handler, net>>

\* _client_worker reads a frame that is empty, is not JSON or is not a JSON
\* object: the loop is left and the finally block forgets the client and
\* closes the socket
HandleMalformedFrame(c) ==
    /\ Ready(c)
    /\ RequestBudget
    /\ handler' = [handler EXCEPT !.clients = @ \ {c}]
    /\ last' = [Call("malformed_frame", net.tid[c], "READ", "A", FAILED, "")
                  EXCEPT !.client = c]
    /\ UNCHANGED <<ccm, wal, processor, net>>

NextDispatcher ==
    \/ \E c \in Clients : HandleUnknownType(c)
    \/ \E c \in Clients : HandleMalformedFrame(c)
    \/ \E c \in Clients : HandleBegin(c)
    \/ \E c \in Clients, a \in StatementActions, r \in Tables :
          HandleExecute(c, a, r)
    \/ \E c \in Clients : HandleCommit(c)
    \/ \E c \in Clients : CommitLog(c)
    \/ \E c \in Clients : HandleRollback(c)
    \/ \E c \in Clients : Disconnect(c)
    \/ DispatcherSkip
    \/ DispatcherCheck
    \/ DispatcherExecute

SpecDispatcher == Init /\ [][NextDispatcher]_vars

(***************************************************************************)
(* The server with every connection inside a transaction and two tables,   *)
(* A locked by transaction 2 and B by transaction 3: the state after one   *)
(* begin per connection and two granted statements.                        *)
(***************************************************************************)
RECURSIVE Begun(_)
Begun(n) == IF n = 0 THEN InitCCM ELSE transaction_begin(Begun(n - 1))

InitHeld ==
    /\ ccm = GrantLock(GrantLock(Begun(MaxClients), 2, "WRITE", "A"),
                       3, "WRITE", "B")
    /\ last = NoCall
    /\ calls = MaxClients
    /\ wal = [buffer |-> <<>>, file |-> <<>>, last_lsn |-> 0]
    /\ processor = [active_transactions |-> Clients, committed |-> {},
                    storage |-> [catalog |-> {}, applied |-> {}]]
    /\ handler = [clients |-> Clients,
                  pc |-> [c \in Clients |-> "idle"],
                  retry_queue |-> <<>>,
                  dispatcher |-> "idle",
                  clock |-> 0,
                  wire |-> <<>>,
                  sendall |-> [th \in {"worker", "dispatcher"} |-> 0]]
    /\ net = [tid |-> [c \in Clients |-> c],
              open |-> [c \in Clients |-> TRUE],
              sent |-> 0,
              committed |-> {}]

NextTwoTables ==
    \/ \E c \in Clients, a \in StatementActions, r \in Resources :
          HandleExecute(c, a, r)
    \/ \E c \in Clients : HandleCommit(c)
    \/ \E c \in Clients : CommitLog(c)
    \/ \E c \in Clients : HandleRollback(c)
    \/ \E c \in Clients : Disconnect(c)
    \/ RetrySkip
    \/ RetryAttempt

SpecTwoTables == InitHeld /\ [][NextTwoTables]_vars

(***************************************************************************)
(* The retry queue by itself: a queue.PriorityQueue, which keeps its items *)
(* in a binary heap (heapq) and compares RetryItems by priority alone.     *)
(* Positions are counted from 0 as in the heap; the item at position p is  *)
(* h[p + 1].                                                               *)
(***************************************************************************)
\* heapq._siftdown: newitem moves from pos towards startpos past every
\* parent it is smaller than
RECURSIVE heap_siftdown(_, _, _, _)
heap_siftdown(h, startpos, pos, newitem) ==
    LET parentpos == (pos - 1) \div 2 IN
    IF pos > startpos /\ newitem.priority < h[parentpos + 1].priority
    THEN heap_siftdown([h EXCEPT ![pos + 1] = h[parentpos + 1]],
                       startpos, parentpos, newitem)
    ELSE [h EXCEPT ![pos + 1] = newitem]

\* heapq._siftup: the smaller child is moved up until a leaf is reached
\* (the right child when the left one is not smaller), then newitem is put
\* there and sifted down
RECURSIVE heap_siftup(_, _, _)
heap_siftup(h, pos, newitem) ==
    LET childpos == 2 * pos + 1
        rightpos == childpos + 1
        smaller == IF rightpos < Len(h)
                      /\ ~(h[childpos + 1].priority < h[rightpos + 1].priority)
                   THEN rightpos ELSE childpos
    IN  IF childpos < Len(h)
        THEN heap_siftup([h EXCEPT ![pos + 1] = h[smaller + 1]], smaller, newitem)
        ELSE heap_siftdown(h, 0, pos, newitem)

\* PriorityQueue.put: heappush
heappush(h, item) == heap_siftdown(Append(h, item), 0, Len(h), item)

\* PriorityQueue.get: heappop
heappop(h) ==
    LET lastelt == h[Len(h)]
        rest == SubSeq(h, 1, Len(h) - 1)
    IN  IF rest = <<>>
        THEN [item |-> lastelt, heap |-> <<>>]
        ELSE [item |-> rest[1],
              heap |-> heap_siftup([rest EXCEPT ![1] = lastelt], 0, lastelt)]

QueueBudget == calls < MaxQueueCalls /\ calls' = calls + 1

\* _add_to_retry_queue: the item is stamped with time.time(), which may or
\* may not have moved on since the last stamp, and put; the clients take
\* turns
QueuePut ==
    /\ QueueBudget
    /\ \E now \in {handler.clock, handler.clock + 1} :
         LET c == (net.sent % MaxClients) + 1 IN
         handler' = [handler EXCEPT
             !.clock = now,
             !.retry_queue =
                 heappush(@, [RetryItem(c, net.sent + 1, c, "WRITE", "A", {})
                                EXCEPT !.priority = now])]
    /\ net' = [net EXCEPT !.sent = @ + 1]
    /\ last' = NoCall
    /\ UNCHANGED <<ccm, wal, processor>>

\* _retry_processor, line 320: the dispatcher takes the next item
QueueGet ==
    /\ QueueBudget
    /\ handler.retry_queue # <<>>
    /\ handler' = [handler EXCEPT !.retry_queue = heappop(@).heap]
    /\ last' = [Call("get", heappop(handler.retry_queue).item.transaction_id,
                     "WRITE", "A", GRANTED, "")
                  EXCEPT !.item = <<heappop(handler.retry_queue).item>>]
    /\ UNCHANGED <<ccm, wal, processor, net>>

NextRetryQueue ==
    \/ QueuePut
    \/ QueueGet

SpecRetryQueue == Init /\ [][NextRetryQueue]_vars

(***************************************************************************)
(* _send_message on one connection.  The worker of the connection sends    *)
(* the responses, the dispatcher the follow-ups; both call sock.sendall on *)
(* the same socket and no lock is taken.  sendall hands the frame to the   *)
(* socket in one piece or, when the socket takes only part of it, in two.  *)
(* wire is what the client reads.                                          *)
(***************************************************************************)
SenderThreads == {"worker", "dispatcher"}

\* _send_message: no lock is taken, a thread starts to send whenever it has
\* a frame.  sendall, first send(): the whole frame, or its head only
SendallBegin(th) ==
    /\ calls < MaxFrames
    /\ calls' = calls + 1
    /\ handler.sendall[th] = 0
    /\ \E part \in {"whole", "head"} :
         handler' = [handler EXCEPT
             !.wire = Append(@, [by |-> th, frame |-> calls + 1, part |-> part]),
             !.sendall[th] = IF part = "head" THEN calls + 1 ELSE 0]
    /\ last' = Call("send", None, "READ", "A", GRANTED, th)
    /\ UNCHANGED <<ccm, wal, processor, net>>

\* sendall, the send() that follows a partial one: the rest of the frame
SendallRest(th) ==
    /\ handler.sendall[th] # 0
    /\ handler' = [handler EXCEPT
          !.wire = Append(@, [by |-> th, frame |-> handler.sendall[th],
                              part |-> "tail"]),
          !.sendall[th] = 0]
    /\ last' = Call("send", None, "READ", "A", GRANTED, th)
    /\ UNCHANGED <<calls, ccm, wal, processor, net>>

NextSend ==
    \/ \E th \in SenderThreads : SendallBegin(th)
    \/ \E th \in SenderThreads : SendallRest(th)

SpecSend == Init /\ [][NextSend]_vars

(***************************************************************************)
(* QueryExecutor: the locks a plan asks for before it runs.  A plan is     *)
(* given by the table names of its scan nodes in the order the tree is     *)
(* walked.                                                                 *)
(***************************************************************************)
Plans == UNION {[1..n -> Resources] : n \in 1..MaxPlanTables}

\* list(set(tables)): the names without duplicates, in the order the set
\* happens to iterate (string hashes differ from one process to the next)
ListOfSet(S) ==
    {s \in [1..Cardinality(S) -> S] : \A x \in S : \E i \in DOMAIN s : s[i] = x}

\* _extract_tables: the lists the call can return for the plan
extract_tables(plan) == ListOfSet({plan[i] : i \in DOMAIN plan})

\* _acquire_locks, the loop: one request_lock per table, given up at the
\* first request that is not granted
RECURSIVE acquire_locks(_, _, _, _)
acquire_locks(m, t, tables, lock_type) ==
    IF tables = <<>>
    THEN [m |-> m, ok |-> TRUE, requested |-> <<>>]
    ELSE LET resp == icm_request_lock(m, t, Head(tables), lock_type)
         IN  IF resp.status # GRANTED
             THEN [m |-> resp.m, ok |-> FALSE, requested |-> <<Head(tables)>>]
             ELSE LET rest == acquire_locks(resp.m, t, Tail(tables), lock_type)
                  IN  [m |-> rest.m, ok |-> rest.ok,
                       requested |-> <<Head(tables)>> \o rest.requested]

ExecutorBudget == calls < MaxExecutorCalls /\ calls' = calls + 1

\* execute_with_transaction, line 52: begin_transaction
ExecutorBegin ==
    /\ ExecutorBudget
    /\ Len(ccm.transactions) < MaxTx
    /\ ccm' = transaction_begin(ccm)
    /\ last' = Call("begin", NextTransactionId(ccm), "READ", "A", GRANTED, "")
    /\ UNCHANGED serverVars

\* _acquire_locks for the current transaction t
AcquireLocks(t, plan, lock_type) ==
    /\ ExecutorBudget
    /\ transaction_exists(ccm, t)
    /\ \E tables \in extract_tables(plan) :
         LET res == acquire_locks(ccm, t, tables, lock_type)
         IN  /\ ccm' = res.m
             /\ last' = [Call("acquire_locks", t, lock_type, Head(tables),
                              IF res.ok THEN GRANTED ELSE DENIED, "")
                           EXCEPT !.order = res.requested]
    /\ UNCHANGED serverVars

\* execute_with_transaction, lines 66-69: commit, commit_flushed, end
ExecutorCommit(t) ==
    /\ ExecutorBudget
    /\ transaction_exists(ccm, t)
    /\ LET m1 == icm_commit_transaction(ccm, t).m
           m2 == icm_commit_flushed(m1, t).m
       IN  ccm' = icm_end_transaction(m2, t).m
    /\ last' = Call("commit", t, "READ", "A", GRANTED, "")
    /\ UNCHANGED serverVars

\* execute_with_transaction, lines 78-82: rollback and end after a failure
ExecutorRollback(t) ==
    /\ ExecutorBudget
    /\ transaction_exists(ccm, t)
    /\ LET m1 == icm_rollback_transaction(ccm, t).m
       IN  ccm' = icm_end_transaction(m1, t).m
    /\ last' = Call("rollback", t, "READ", "A", GRANTED, "")
    /\ UNCHANGED serverVars

NextExecutor ==
    \/ ExecutorBegin
    \/ \E t \in Tx, plan \in Plans, a \in RowActions : AcquireLocks(t, plan, a)
    \/ \E t \in Tx : ExecutorCommit(t)
    \/ \E t \in Tx : ExecutorRollback(t)

SpecExecutor == Init /\ [][NextExecutor]_vars

(***************************************************************************)
(* Properties.                                                             *)
(***************************************************************************)
\* the wait-for graph: t is registered as a waiter of a resource that u holds
WaitsFor(m, t, u) ==
    \E r \in Resources : t \in m.resource_waiters[r] /\ u \in Holders(m, r) \ {t}

\* the transaction of a connection, and whether that connection is gone
Gone(t) == \E c \in Clients : net.tid[c] = t /\ c \notin handler.clients

Pending(t) ==
    \E i \in 1..Len(handler.retry_queue) :
        handler.retry_queue[i].transaction_id = t

Finished(m, hs) ==
    \A h \in hs : transaction_get_status(m, h) = TERMINATED

\* C1: every resource has no exclusive holder, or exactly one exclusive
\* holder together with a shared-holder set that is empty or holds only
\* that same transaction.
C1_LockTableInvariant ==
    \A r \in Resources :
        \/ ccm.exclusive_locks[r] = None
        \/ /\ ccm.exclusive_locks[r] \in Tx
           /\ ccm.shared_locks[r] \subseteq {ccm.exclusive_locks[r]}

C1_Witness ==
    \E r \in Resources :
        /\ ccm.exclusive_locks[r] # None
        /\ ccm.resource_waiters[r] # {}
        /\ \E s \in Resources : Cardinality(ccm.shared_locks[s]) >= 2

C4_LocksHeldUntilFinish ==
    [][\A t \in Tx, r \in Resources :
         (transaction_exists(ccm, t) /\ Holds(ccm, t, r) /\ ~Holds(ccm', t, r))
         => \/ /\ transaction_get_status(ccm, t) = PARTIALLY_COMMITTED
               /\ transaction_get_status(ccm', t) = COMMITTED
            \/ /\ transaction_get_status(ccm, t) = FAILED
               /\ transaction_get_status(ccm', t) = ABORTED]_vars

C4_Witness ==
    \E t \in Tx, r \in Resources :
        /\ transaction_exists(ccm, t)
        /\ transaction_get_status(ccm, t) = PARTIALLY_COMMITTED
        /\ ccm.exclusive_locks[r] = t
        /\ ccm.resource_waiters[r] # {}

C6_CommitDurableBeforeRelease ==
    \A t \in processor.committed \cup net.committed :
        Appended(wal, t, "COMMIT") /\ Durable(wal, t, "COMMIT")

\* C7: an execute answered with queued_for_retry gets exactly one follow-up
\* response, never a second one.
C7_OneFollowUpPerQueuedExecute ==
    last.op = "retry" => last.followup <= 1

C16_NoLocksAfterFinish ==
    \A t \in Tx :
        (/\ transaction_exists(ccm, t)
         /\ transaction_get_status(ccm, t) \in {COMMITTED, ABORTED, TERMINATED})
        => \A r \in Resources :
             t \notin ccm.shared_locks[r] /\ ccm.exclusive_locks[r] # t

C16_Witness ==
    \E t \in Tx :
        /\ transaction_exists(ccm, t)
        /\ transaction_get_status(ccm, t) \in {COMMITTED, ABORTED}
        /\ ccm.transactions[t].shared_row_ids # {}
        /\ ccm.transactions[t].exclusive_row_ids # {}

\* the resources a transaction is recorded as waiting on
WaitingOn(m, t) == {r \in Resources : t \in m.resource_waiters[r]}

\* C17 (as stated): a transaction is recorded as waiting on at most one
\* resource at any time.
C17_WaitsOnAtMostOneResource ==
    \A t \in Tx : Cardinality(WaitingOn(ccm, t)) <= 1

\* C17 (amended): one request records its transaction as a waiter of at
\* most one resource, the requested one, and of no other resource.
C17_OneRequestWaitsOnOneResource ==
    [][\A t \in Tx :
         WaitingOn(ccm', t) \ WaitingOn(ccm, t) \subseteq
            (IF last'.op = "query" /\ last'.tid = t /\ last'.status = WAITING
             THEN {last'.res} ELSE {})]_vars

C17_Witness ==
    /\ last.op = "query"
    /\ last.status = WAITING
    /\ Cardinality(WaitingOn(ccm, last.tid)) = 2

\* C12: rolling back, through the wrapper, a transaction that is already
\* FAILED does not fail, releases every lock the transaction holds and
\* signals the transactions waiting on those locks.
C12_RollbackOfFailedReleasesLocks ==
    [][(/\ last'.op = "rollback_transaction"
        /\ transaction_exists(ccm, last'.tid)
        /\ transaction_get_status(ccm, last'.tid) = FAILED)
       => /\ last'.status = GRANTED
          /\ \A r \in Resources :
                /\ ~Holds(ccm', last'.tid, r)
                /\ Holds(ccm, last'.tid, r)
                      => \A w \in ccm.resource_waiters[r] : ccm'.waiting_events[w]]_vars

\* the status chains
StatusSuccessors(s) ==
    CASE s = ACTIVE -> {PARTIALLY_COMMITTED, FAILED}
      [] s = PARTIALLY_COMMITTED -> {COMMITTED}
      [] s = COMMITTED -> {TERMINATED}
      [] s = FAILED -> {ABORTED}
      [] s = ABORTED -> {TERMINATED}
      [] OTHER -> {}

\* the states that lie ahead of s on its chains, within two steps or more
StatusAhead(s) ==
    LET one == StatusSuccessors(s)
        two == UNION {StatusSuccessors(x) : x \in one}
        three == UNION {StatusSuccessors(x) : x \in two}
    IN  one \cup two \cup three

WrapperOps ==
    {"commit_transaction", "commit_flushed", "rollback_transaction", "end_transaction"}

\* C15: the status of a transaction changes only along
\* ACTIVE -> PARTIALLY_COMMITTED -> COMMITTED -> TERMINATED or
\* ACTIVE -> FAILED -> ABORTED -> TERMINATED: a call on the manager moves it
\* one step, a call on the wrapper moves it one or more steps forward on
\* one chain, and no call moves it any other way.
C15_StatusFollowsTheChains ==
    [][\A t \in Tx :
         (transaction_exists(ccm, t)
          /\ transaction_get_status(ccm', t) # transaction_get_status(ccm, t))
         => IF last'.op \in WrapperOps
            THEN transaction_get_status(ccm', t)
                    \in StatusAhead(transaction_get_status(ccm, t))
            ELSE transaction_get_status(ccm', t)
                    \in StatusSuccessors(transaction_get_status(ccm, t))]_vars

C15_Witness ==
    /\ last.op = "end_transaction"
    /\ last.status = GRANTED
    /\ transaction_get_status(ccm, last.tid) = TERMINATED
    /\ \E t \in Tx : /\ transaction_exists(ccm, t)
                      /\ transaction_get_status(ccm, t) = PARTIALLY_COMMITTED

\* C14: when a rollback request has been processed, no retry item of the
\* rolled-back transaction is left in the retry queue to be re-executed.
C14_RollbackDrainsRetryItems ==
    last.op = "rollback" => ~Pending(last.tid)

\* C13: whenever the processor's commit or rollback of a transaction has
\* returned, with success or with failure, the transaction is TERMINATED in
\* the concurrency manager and holds no lock.
C13_ProcessorEndsOnEveryPath ==
    (last.op \in {"commit", "rollback"})
    => /\ transaction_get_status(ccm, last.tid) = TERMINATED
       /\ \A r \in Resources : ~Holds(ccm, last.tid, r)

\* C18: every change made to the storage of a table for a transaction was
\* made after a WRITE request of that transaction on that table had been
\* granted.
C18_MutationOnlyAfterWriteGrant ==
    \A mu \in processor.storage.applied :
        mu.table \in ccm.transactions[mu.txid].exclusive_row_ids

\* the OPERATION records of a transaction in the log
OpRecords(w, t) ==
    {i \in 1..Len(w.file \o w.buffer) :
        /\ (w.file \o w.buffer)[i].txid = t
        /\ (w.file \o w.buffer)[i].log_type = "OPERATION"}

\* C19: the OPERATION record of an INSERT, UPDATE or DELETE is appended to
\* the log only after the WRITE lock was acquired and the write was applied
\* to the storage: a statement that appends a record is one that holds the
\* lock and whose write was applied.
C19_OpRecordAfterAppliedWrite ==
    [][\A t \in Tx :
         (OpRecords(wal', t) # OpRecords(wal, t) /\ last'.action \in DML)
         => /\ last'.op = "statement"
            /\ last'.tid = t
            /\ last'.status = GRANTED
            /\ Holds(ccm', t, last'.res)
            /\ Mutation(t, last'.action, last'.res) \in processor'.storage.applied]_vars

CommitLsn(w, t) ==
    {(w.file \o w.buffer)[i].lsn : i \in
        {j \in 1..Len(w.file \o w.buffer) :
            /\ (w.file \o w.buffer)[j].txid = t
            /\ (w.file \o w.buffer)[j].log_type = "COMMIT"}}

\* C20: for every committed transaction X and every table R that X wrote,
\* the log holds an OPERATION record for (X, R) with an LSN smaller than
\* the LSN of the COMMIT record of X.
C20_OpRecordForEachWrittenResource ==
    \A mu \in processor.storage.applied :
        \A commit_lsn \in CommitLsn(wal, mu.txid) :
            \E i \in OpRecords(wal, mu.txid) :
                /\ (wal.file \o wal.buffer)[i].table = mu.table
                /\ (wal.file \o wal.buffer)[i].lsn < commit_lsn

\* the records of the log in append order: the log file, then the buffer
Records(w) == w.file \o w.buffer

\* C21: over write_log and checkpoint calls the LSNs of the records of the
\* log increase strictly in append order (so no two records share one), no
\* record is beyond last_lsn, and the records a call finds in the log are
\* still there afterwards, in the same order, before anything it appends.
C21_LsnIncreasingAppendOnly ==
    [][ /\ \A i, j \in 1..Len(Records(wal')) :
              i < j => Records(wal')[i].lsn < Records(wal')[j].lsn
        /\ \A i \in 1..Len(Records(wal')) : Records(wal')[i].lsn <= wal'.last_lsn
        /\ Len(Records(wal')) >= Len(Records(wal))
        /\ SubSeq(Records(wal'), 1, Len(Records(wal))) = Records(wal) ]_vars

\* a checkpoint was called with at least two records in the log
C21_Witness ==
    /\ last.op = "checkpoint"
    /\ Len(Records(wal)) >= 2
    /\ wal.last_lsn > Len(Records(wal))

\* C22: after a kill and the recovery, the storage shows no change made by
\* a transaction whose COMMIT record had not been appended when the server
\* was killed.
C22_NoPartialCommitAfterRecovery ==
    last.op = "recover" =>
        \A mu \in processor.storage.applied : mu.txid \in processor.committed

\* C23: after a rollback_transaction that the processor carried out, the
\* log holds an ABORT record of that transaction.
C23_RollbackAppendsAbortRecord ==
    (last.op = "rollback" /\ last.status = GRANTED) =>
        Appended(wal, last.tid, "ABORT")

\* a READ or WRITE request of an ACTIVE transaction under Timestamp-Ordering
TsRequest(a) ==
    /\ last'.op = "query" /\ last'.action = a
    /\ transaction_is_queryable(ccm, last'.tid)

\* C24: under Timestamp-Ordering a READ of R by an ACTIVE transaction whose
\* timestamp is below write_ts(R) is answered FAILED and the transaction
\* becomes FAILED; any other READ is granted and read_ts(R) becomes the
\* larger of its old value and the transaction's timestamp.
C24_TimestampRead ==
    [][TsRequest("READ") =>
        LET t == last'.tid
            r == last'.res
        IN  IF Timestamp(ccm, t) < ccm.write_ts[r]
            THEN /\ last'.status = DENIED
                 /\ transaction_get_status(ccm', t) = FAILED
            ELSE /\ last'.status = GRANTED
                 /\ transaction_get_status(ccm', t) = ACTIVE
                 /\ ccm'.read_ts[r] = Max(ccm.read_ts[r], Timestamp(ccm, t))
                 /\ ccm'.read_ts[r] >= ccm.read_ts[r]
                 /\ ccm'.read_ts[r] >= Timestamp(ccm, t)]_vars

\* a READ was refused as too old, after a READ had been granted
C24_Witness ==
    /\ last.op = "query" /\ last.action = "READ" /\ last.status = DENIED
    /\ last.reason = "timestamp too old"
    /\ transaction_get_status(ccm, last.tid) = FAILED
    /\ \E r \in Resources : ccm.read_ts[r] > 0

\* C25: under Timestamp-Ordering a WRITE of R by an ACTIVE transaction with
\* timestamp ts is answered FAILED when ts < read_ts(R); is granted with
\* read_ts(R) and write_ts(R) unchanged when ts < write_ts(R); and is
\* otherwise granted with write_ts(R) = ts.
C25_TimestampWrite ==
    [][TsRequest("WRITE") =>
        LET t == last'.tid
            r == last'.res
            ts == Timestamp(ccm, t)
        IN  IF ts < ccm.read_ts[r]
            THEN /\ last'.status = DENIED
                 /\ transaction_get_status(ccm', t) = FAILED
            ELSE IF ts < ccm.write_ts[r]
            THEN /\ last'.status = GRANTED
                 /\ ccm'.read_ts[r] = ccm.read_ts[r]
                 /\ ccm'.write_ts[r] = ccm.write_ts[r]
            ELSE /\ last'.status = GRANTED
                 /\ ccm'.write_ts[r] = ts
                 /\ ccm'.read_ts[r] = ccm.read_ts[r]]_vars

\* a late WRITE was granted and ignored
C25_Witness ==
    /\ last.op = "query" /\ last.action = "WRITE" /\ last.status = GRANTED
    /\ last.reason = "ignored write"
    /\ ccm.write_ts[last.res] > Timestamp(ccm, last.tid)

\* C26: under Timestamp-Ordering no operation lowers read_ts(R) or
\* write_ts(R) of any resource, aborts and new transactions included.
C26_TimestampsNeverDecrease ==
    [][\A r \in Resources :
          /\ ccm'.read_ts[r] >= ccm.read_ts[r]
          /\ ccm'.write_ts[r] >= ccm.write_ts[r]]_vars

\* after a transaction was refused and rolled back, a later transaction
\* has read a resource whose timestamps the earlier ones had raised
C26_Witness ==
    /\ \E t \in 1..Len(ccm.transactions) :
          /\ transaction_get_status(ccm, t) = TERMINATED
          /\ \E r \in Resources : ccm.write_ts[r] > t
    /\ last.op = "query" /\ last.status = GRANTED
    /\ last.tid = Len(ccm.transactions)
    /\ \E r \in Resources : ccm.read_ts[r] > 0 /\ ccm.write_ts[r] > 0

\* the transactions that committed under OCC
OccCommitted(m) ==
    {t \in 1..Len(m.transactions) : m.transactions[t].finish_ts # NoTs}

\* C27 as stated: under OCC, for committed T1 and T2 with
\* finish_ts(T1) < validation_ts(T2), the read-set of T2 and the write-set
\* of T1 are disjoint.
C27_DisjointAfterFinish ==
    \A t1, t2 \in OccCommitted(ccm) :
        (t1 # t2 /\ ccm.transactions[t1].finish_ts
                        < ccm.transactions[t2].validation_ts)
        => ccm.transactions[t2].read_set
              \cap ccm.transactions[t1].write_set = {}

\* C27 amended: under OCC, for committed T1 and T2 where T1 finished while
\* T2 was running (start_ts(T2) <= finish_ts(T1) < validation_ts(T2)), the
\* read-set of T2 and the write-set of T1 are disjoint.
C27_DisjointWhenFinishedInWindow ==
    \A t1, t2 \in OccCommitted(ccm) :
        (/\ t1 # t2
         /\ ccm.transactions[t2].start_ts <= ccm.transactions[t1].finish_ts
         /\ ccm.transactions[t1].finish_ts < ccm.transactions[t2].validation_ts)
        => ccm.transactions[t2].read_set
              \cap ccm.transactions[t1].write_set = {}

\* a writer finished while a reader of another resource was running, and
\* both committed
C27_Witness ==
    \E t1, t2 \in OccCommitted(ccm) :
        /\ t1 # t2
        /\ ccm.transactions[t2].start_ts <= ccm.transactions[t1].finish_ts
        /\ ccm.transactions[t1].finish_ts < ccm.transactions[t2].validation_ts
        /\ ccm.transactions[t1].write_set # {}
        /\ ccm.transactions[t2].read_set # {}

IssuedIds(m) == {m.transactions[t].timestamp : t \in 1..Len(m.transactions)}

\* C30: every begin returns an id greater than every id issued before, so
\* no id is issued twice, also when earlier transactions have ended; no
\* call removes a transaction from the manager's table.
C30_BeginIssuesFreshId ==
    [][ /\ last'.op = "begin" =>
              /\ \A i \in IssuedIds(ccm) : last'.tid > i
              /\ IssuedIds(ccm') = IssuedIds(ccm) \cup {last'.tid}
              /\ Len(ccm'.transactions) = Len(ccm.transactions) + 1
        /\ IssuedIds(ccm) \subseteq IssuedIds(ccm')
        /\ Len(ccm'.transactions) >= Len(ccm.transactions) ]_vars

\* a begin after an earlier transaction has ended
C30_Witness ==
    /\ last.op = "begin"
    /\ \E t \in 1..Len(ccm.transactions) :
          t < last.tid /\ transaction_get_status(ccm, t) = TERMINATED

\* C31: a statement of a transaction takes effect only when every statement
\* the client sent before it in that transaction has taken effect: the
\* worker does not carry out a statement of a transaction that still has an
\* earlier statement in the retry queue.
C31_StatementOrderPreserved ==
    (last.op = "execute" /\ last.status = GRANTED)
        => ~Pending(last.tid)

\* C32: no statement of a disconnected client is re-executed by the
\* dispatcher: a retry is carried out only for a transaction whose client
\* is still connected.
C32_NoRetryAfterDisconnect ==
    last.op = "retry" => ~Gone(last.tid)

\* C33: after a message with an unknown type or with malformed framing the
\* connection that sent it is closed: the client is no longer among the
\* server's clients.
C33_ProtocolErrorClosesConnection ==
    last.op \in {"unknown_type", "malformed_frame"}
        => last.client \notin handler.clients

\* C34: the dispatcher re-executes a queued statement only when the wait
\* event of its transaction is set or after the wait on that event ran into
\* its time limit; it never re-executes after a fixed sleep while the event
\* is clear.
C34_RetryOnlyOnEventOrTimeout ==
    [][last'.op = "retry"
         => (ccm.waiting_events[last'.tid] \/ last'.wait = "event_or_timeout")]_vars

C36_LocksRequestedAlphabetically ==
    last.op = "acquire_locks"
        => \A i, j \in DOMAIN last.order :
             (i < j /\ last.order[i] = "B") => last.order[j] # "A"

\* C37: the dispatcher takes the retry items in the order of their enqueue
\* time, and items with the same time in the order they were put: no item
\* left in the queue has an earlier time than the item taken, or the same
\* time and an earlier put.
C37_DequeueInEnqueueOrder ==
    last.op = "get"
        => \A i \in DOMAIN handler.retry_queue :
             LET taken == last.item[1]
                 left == handler.retry_queue[i]
             IN  \/ left.priority > taken.priority
                 \/ left.priority = taken.priority /\ left.id > taken.id

\* C38: a frame reaches the connection whole: the bytes of a frame the
\* dispatcher sends never come between the bytes of a frame the worker
\* sends, nor the other way round.
C38_FramesNotInterleaved ==
    \A i \in DOMAIN handler.wire :
        (handler.wire[i].part = "head" /\ i < Len(handler.wire))
            => /\ handler.wire[i + 1].part = "tail"
               /\ handler.wire[i + 1].frame = handler.wire[i].frame

C40_DisconnectEndsTransaction ==
    \A t \in Tx :
        (IF transaction_exists(ccm, t)
         THEN Gone(t) /\ transaction_get_status(ccm, t) # TERMINATED
         ELSE FALSE)
        ~> (IF transaction_exists(ccm, t)
            THEN /\ transaction_get_status(ccm, t) = TERMINATED
                 /\ \A r \in Resources : ~Holds(ccm, t, r)
            ELSE FALSE)

====
